---- MODULE Spec2Model ----
(***************************************************************************)
(* Model of the auto-render addon (src/src/addons/auto-render.js): the     *)
(* brace-aware delimiter matcher, the segmenter, and the DOM walker that   *)
(* replaces text nodes by rendered math.                                    *)
(*                                                                         *)
(* JavaScript strings are TLA+ strings; offsets are 0-based as in the      *)
(* source, and Slice/IndexOf/CharAt follow String.prototype.slice,         *)
(* indexOf and [] on the offsets the code can pass.                         *)
(***************************************************************************)
EXTENDS Integers, Sequences, FiniteSets, TLC

VARIABLES
    fArgs,      \* findEndOfMath call: [delimiter, text, startIndex]
    fRet,       \* <<>> before it returned, <<value>> once it has
    sText,      \* splitWithDelimiters call: the text argument
    sDelims,    \* splitWithDelimiters call: the delimiters argument
    sData,      \* the local `data` of splitWithDelimiters
    sPc,        \* position in splitWithDelimiters: "inline", "display", "returned"
    sI,         \* the loop index i of the running loop
    doc,        \* the document: its nodes, a node's name being its index
    orig,       \* the document as it was when renderMathInElement was called
    rootArg,    \* the elem argument of renderMathInElement
    optionsArg, \* the options argument of renderMathInElement
    failing,    \* the sources latexToMarkup throws for
    options,    \* the local `options` of renderMathInElement
    status,     \* "called", "scanning", "returned", "threw", "hung"
    stack,      \* the running calls of scanElement: [elem, i], innermost last
    visited,    \* history: <<elem, child>> for each child a loop examined
    entered,    \* history: the elements scanElement was called on
    replacedBy, \* history: replaced text node -> the nodes that replaced it
    lastScan    \* history: the latest scanText call, [text, frag]

matchVars == <<fArgs, fRet>>

splitVars == <<sText, sDelims, sData, sPc, sI>>

treeVars == <<doc, orig, rootArg, optionsArg, failing, options, status, stack,
              visited, entered, replacedBy, lastScan>>

vars == <<matchVars, splitVars, treeVars>>

\* ------------------------------------------------------------------ bounds

\* Longest text handed to findEndOfMath.
MaxMatchLen == 4

\* Longest generated text handed to splitWithDelimiters.
MaxSplitLen == 5

\* ------------------------------------------------------- JavaScript strings

Min(a, b) == IF a < b THEN a ELSE b

\* text.slice(from, to) for 0 <= from; `to` is clamped to the length.
Slice(text, from, to) == SubSeq(text, from + 1, Min(to, Len(text)))

\* text[index] for an index inside the text.
CharAt(text, index) == SubSeq(text, index + 1, index + 1)

\* whether `needle` occurs in `text` at offset `index`.
OccursAt(text, needle, index) ==
    /\ index + Len(needle) <= Len(text)
    /\ Slice(text, index, index + Len(needle)) = needle

\* text.indexOf(needle, fromIndex) for 0 <= fromIndex <= text.length.
IndexOf(text, needle, fromIndex) ==
    LET hits == {i \in fromIndex..Len(text) : OccursAt(text, needle, i)}
    IN  IF hits = {} THEN -1 ELSE CHOOSE i \in hits : \A j \in hits : i <= j

\* The smallest number of a finite set of numbers, `none` for the empty set.
SmallestOr(offsets, none) ==
    IF offsets = {} THEN none ELSE CHOOSE i \in offsets : \A j \in offsets : i <= j

\* All strings over `alphabet` of length at most n.
RECURSIVE Strings(_, _)
Strings(alphabet, n) ==
    IF n = 0 THEN {""}
    ELSE LET shorter == Strings(alphabet, n - 1)
         IN  shorter \cup {s \o c : s \in shorter, c \in alphabet}

\* ---------------------------------------------------------- findEndOfMath

\* The while loop of findEndOfMath (lines 12-27) from `index` and `braceLevel`.
RECURSIVE findEndLoop(_, _, _, _)
findEndLoop(delimiter, text, index, braceLevel) ==
    IF ~(index < Len(text)) THEN -1
    ELSE LET character == CharAt(text, index)
         IN  IF braceLevel <= 0
                  /\ Slice(text, index, index + Len(delimiter)) = delimiter
             THEN index
             ELSE IF character = "\\"
             THEN findEndLoop(delimiter, text, index + 2, braceLevel)
             ELSE IF character = "{"
             THEN findEndLoop(delimiter, text, index + 1, braceLevel + 1)
             ELSE IF character = "}"
             THEN findEndLoop(delimiter, text, index + 1, braceLevel - 1)
             ELSE findEndLoop(delimiter, text, index + 1, braceLevel)

\* Mutant loop: the delimiter is accepted only at brace level exactly 0.
RECURSIVE findEndLoop_LevelZero(_, _, _, _)
findEndLoop_LevelZero(delimiter, text, index, braceLevel) ==
    IF ~(index < Len(text)) THEN -1
    ELSE LET character == CharAt(text, index)
         IN  IF braceLevel = 0
                  /\ Slice(text, index, index + Len(delimiter)) = delimiter
             THEN index
             ELSE IF character = "\\"
             THEN findEndLoop_LevelZero(delimiter, text, index + 2, braceLevel)
             ELSE IF character = "{"
             THEN findEndLoop_LevelZero(delimiter, text, index + 1, braceLevel + 1)
             ELSE IF character = "}"
             THEN findEndLoop_LevelZero(delimiter, text, index + 1, braceLevel - 1)
             ELSE findEndLoop_LevelZero(delimiter, text, index + 1, braceLevel)

findEndOfMath_LevelZero(delimiter, text, startIndex) ==
    findEndLoop_LevelZero(delimiter, text, startIndex, 0)

findEndOfMath(delimiter, text, startIndex) ==
    findEndLoop(delimiter, text, startIndex, 0)

\* ------------------------------------------------------ splitAtDelimiters

TextSegment(data) == [type |-> "text", data |-> data]

\* The text pushed after the while loop (lines 94-97).
trailingText_SkipOne(text, currIndex) ==
    TextSegment(Slice(text, currIndex + 1, Len(text)))

trailingText(text, currIndex) ==
    TextSegment(Slice(text, currIndex, Len(text)))

\* The math segment pushed for a matched pair (lines 77-86).
mathSegment_NoRight(text, currIndex, nextIndex, leftDelim, rightDelim, mathstyle) ==
    [type |-> "math",
     data |-> Slice(text, currIndex + Len(leftDelim), nextIndex),
     rawData |-> Slice(text, currIndex, nextIndex),
     mathstyle |-> mathstyle]

mathSegment(text, currIndex, nextIndex, leftDelim, rightDelim, mathstyle) ==
    [type |-> "math",
     data |-> Slice(text, currIndex + Len(leftDelim), nextIndex),
     rawData |-> Slice(text, currIndex, nextIndex + Len(rightDelim)),
     mathstyle |-> mathstyle]

\* The `while (!done)` loop (lines 52-97) for one text segment, followed by the
\* trailing push.  The loop never ends when both tokens are empty and the text
\* is not (see loopsForever); it is only unfolded when it ends.
RECURSIVE splitLoop(_, _, _, _, _, _, _)
splitLoop(text, leftDelim, rightDelim, mathstyle, currIndex, lookingForLeft, finalData) ==
    IF lookingForLeft
    THEN LET nextIndex == IndexOf(text, leftDelim, currIndex)
         IN  IF nextIndex = -1
             THEN Append(finalData, trailingText(text, currIndex))
             ELSE splitLoop(text, leftDelim, rightDelim, mathstyle, nextIndex, FALSE,
                            Append(finalData, TextSegment(Slice(text, currIndex, nextIndex))))
    ELSE LET nextIndex == findEndOfMath(rightDelim, text, currIndex + Len(leftDelim))
         IN  IF nextIndex = -1
             THEN Append(finalData, trailingText(text, currIndex))
             ELSE splitLoop(text, leftDelim, rightDelim, mathstyle,
                            nextIndex + Len(rightDelim), TRUE,
                            Append(finalData,
                                   mathSegment(text, currIndex, nextIndex,
                                               leftDelim, rightDelim, mathstyle)))

\* What one text segment contributes to finalData (lines 37-97).
splitText(text, leftDelim, rightDelim, mathstyle) ==
    LET nextIndex == IndexOf(text, leftDelim, 0)
    IN  IF nextIndex # -1
        THEN splitLoop(text, leftDelim, rightDelim, mathstyle, nextIndex, FALSE,
                       <<TextSegment(Slice(text, 0, nextIndex))>>)
        ELSE splitLoop(text, leftDelim, rightDelim, mathstyle, 0, TRUE, <<>>)

RECURSIVE splitAtDelimiters(_, _, _, _)
splitAtDelimiters(startData, leftDelim, rightDelim, mathstyle) ==
    IF startData = <<>> THEN <<>>
    ELSE LET first == Head(startData)
             rest  == splitAtDelimiters(Tail(startData), leftDelim, rightDelim, mathstyle)
         IN  IF first.type = "text"
             THEN splitText(first.data, leftDelim, rightDelim, mathstyle) \o rest
             ELSE <<first>> \o rest

\* The while loop of lines 53-92 never exits for some text segment of startData:
\* with both tokens empty every left/right round ends at the offset it began.
loopsForever(startData, leftDelim, rightDelim) ==
    /\ leftDelim = ""
    /\ rightDelim = ""
    /\ \E k \in 1..Len(startData) :
          startData[k].type = "text" /\ Len(startData[k].data) > 0

\* ----------------------------------------------------- splitWithDelimiters

\* The two loops of splitWithDelimiters applied to `data` for the given pairs.
RECURSIVE splitPasses(_, _, _)
splitPasses(data, pairs, mathstyle) ==
    IF pairs = <<>> THEN data
    ELSE splitPasses(splitAtDelimiters(data, Head(pairs)[1], Head(pairs)[2], mathstyle),
                     Tail(pairs), mathstyle)

splitWithDelimiters(text, delimiters) ==
    splitPasses(splitPasses(<<TextSegment(text)>>, delimiters.inline, "textstyle"),
                delimiters.display, "displaystyle")

\* ------------------------------------------------------------ defaultOptions

defaultDelimiters ==
    [inline  |-> << <<"\\(", "\\)">> >>,
     display |-> << <<"$$", "$$">>, <<"\\[", "\\]">> >>]

\* ==================================================================== DOM

\* Nodes are records; a document is the sequence of its nodes and a node is
\* named by its index in it.  0 stands for null.
ElementNode(nodeName, className, id, childNodes) ==
    [nodeType |-> 1, nodeName |-> nodeName, className |-> className, id |-> id,
     data |-> "", innerHTML |-> <<>>, childNodes |-> childNodes]

\* document.createTextNode(data)
createTextNode(data) ==
    [nodeType |-> 3, nodeName |-> "#text", className |-> "", id |-> "",
     data |-> data, innerHTML |-> <<>>, childNodes |-> <<>>]

CommentNode(data) ==
    [nodeType |-> 8, nodeName |-> "#comment", className |-> "", id |-> "",
     data |-> data, innerHTML |-> <<>>, childNodes |-> <<>>]

\* document.createElement('span') with its innerHTML set; <<>> is a span whose
\* innerHTML was never assigned.
createSpan(innerHTML) ==
    [nodeType |-> 1, nodeName |-> "SPAN", className |-> "", id |-> "",
     data |-> "", innerHTML |-> innerHTML, childNodes |-> <<>>]

\* document.body
documentBody == 1

\* document.getElementById(id): the first element with that id, or null.
getElementById(document, id) ==
    LET hits == {n \in 1..Len(document) :
                    document[n].nodeType = 1 /\ document[n].id = id}
    IN  SmallestOr(hits, 0)

\* The nodes below n in the document, n included.
RECURSIVE Subtree(_, _)
Subtree(document, n) ==
    {n} \cup UNION {Subtree(document, document[n].childNodes[k]) :
                        k \in 1..Len(document[n].childNodes)}

\* ------------------------------------------------------- strings, RegExp

UpperCase == "ABCDEFGHIJKLMNOPQRSTUVWXYZ"

LowerCase == "abcdefghijklmnopqrstuvwxyz"

\* String.prototype.toLowerCase
RECURSIVE toLowerCase(_)
toLowerCase(s) ==
    IF s = "" THEN ""
    ELSE LET c == CharAt(s, 0)
             k == IndexOf(UpperCase, c, 0)
         IN  (IF k = -1 THEN c ELSE CharAt(LowerCase, k))
             \o toLowerCase(Slice(s, 1, Len(s)))

\* Array.prototype.includes
includes(array, value) == \E k \in 1..Len(array) : array[k] = value

\* The patterns of the model are literal words, or hold parentheses; the depth
\* of open groups after reading the pattern, -1 once a ")" closes nothing.
RECURSIVE GroupDepth(_, _)
GroupDepth(pattern, depth) ==
    IF pattern = "" \/ depth < 0 THEN depth
    ELSE LET c == CharAt(pattern, 0)
         IN  GroupDepth(Slice(pattern, 1, Len(pattern)),
                        IF c = "(" THEN depth + 1
                        ELSE IF c = ")" THEN depth - 1 ELSE depth)

\* new RegExp(pattern) does not throw a SyntaxError.
RegExpCompiles(pattern) == GroupDepth(pattern, 0) = 0

\* new RegExp(pattern).test(str), for a pattern of literal characters: the
\* pattern occurs somewhere in str.
RegExpTest(pattern, str) == IndexOf(str, pattern, 0) # -1

\* ---------------------------------------------------------------- scanText

\* The characters \s matches among those a string of the model holds.  The
\* strings of the model are ASCII: \s matches six ASCII characters, space,
\* tab, line feed, vertical tab (U+000B, written raw below, TLA+ having no
\* escape for it), form feed and carriage return.  The other characters \s
\* matches (U+00A0, U+1680, U+2000-U+200A, U+2028, U+2029, U+202F, U+205F,
\* U+3000, U+FEFF) are not ASCII; a text holding one is outside the model.
WhiteSpace == {" ", "\t", "\n", "", "\f", "\r"}

RECURSIVE skipWhiteSpace(_, _)
skipWhiteSpace(text, index) ==
    IF index < Len(text) /\ CharAt(text, index) \in WhiteSpace
    THEN skipWhiteSpace(text, index + 1)
    ELSE index

\* text.match(/^\s*\\begin/)
matchesBegin(text) == OccursAt(text, "\\begin", skipWhiteSpace(text, 0))

\* options.TeX.processEnvironments is truthy
processEnvironments(opts) ==
    /\ "processEnvironments" \in DOMAIN opts.TeX
    /\ opts.TeX.processEnvironments = TRUE

\* The markup latexToMarkup returns for a source it can convert: opaque, it
\* only remembers what it was made from.
latexToMarkup(text, mathstyle) == <<text, mathstyle>>

\* The for loop of scanText over the segments (lines 140-156); latexToMarkup
\* throws for the sources in `fails`.
RECURSIVE scanSegments(_, _)
scanSegments(data, fails) ==
    IF data = <<>> THEN <<>>
    ELSE LET segment == Head(data)
             node == IF segment.type = "text" THEN createTextNode(segment.data)
                     ELSE IF segment.data \in fails THEN createTextNode(segment.rawData)
                     ELSE createSpan(latexToMarkup(segment.data, segment.mathstyle))
         IN  <<node>> \o scanSegments(Tail(data), fails)

\* Some pass of splitWithDelimiters over `pairs` never ends.
RECURSIVE passesHang(_, _, _)
passesHang(data, pairs, mathstyle) ==
    /\ pairs # <<>>
    /\ \/ loopsForever(data, Head(pairs)[1], Head(pairs)[2])
       \/ passesHang(splitAtDelimiters(data, Head(pairs)[1], Head(pairs)[2], mathstyle),
                     Tail(pairs), mathstyle)

splitHangs(text, delimiters) ==
    \/ passesHang(<<TextSegment(text)>>, delimiters.inline, "textstyle")
    \/ passesHang(splitPasses(<<TextSegment(text)>>, delimiters.inline, "textstyle"),
                  delimiters.display, "displaystyle")

\* scanText takes the \begin branch (line 126).
environmentCase(text, opts) == processEnvironments(opts) /\ matchesBegin(text)

\* scanText throws a TypeError: options.TeX.delimiters is undefined (line 138
\* calls splitWithDelimiters, whose line 108 reads delimiters.inline).
scanTextThrows(text, opts) ==
    /\ ~environmentCase(text, opts)
    /\ "delimiters" \notin DOMAIN opts.TeX

\* scanText never returns: splitAtDelimiters loops forever.
scanTextHangs(text, opts) ==
    /\ ~environmentCase(text, opts)
    /\ "delimiters" \in DOMAIN opts.TeX
    /\ splitHangs(text, opts.TeX.delimiters)

\* The child nodes of the fragment scanText returns.
scanText(text, opts, fails) ==
    IF environmentCase(text, opts)
    THEN IF text \in fails
         THEN <<createSpan(<<>>), createTextNode(text)>>
         ELSE <<createSpan(latexToMarkup(text, "displaystyle"))>>
    ELSE scanSegments(splitWithDelimiters(text, opts.TeX.delimiters), fails)

\* ------------------------------------------------------------- scanElement

\* The alternative expression the source keeps in a comment (lines 176-178).
shouldRender_Alternative(childNode, opts) ==
    \/ RegExpTest(opts.processClassPattern, childNode.className)
    \/ /\ includes(opts.skipTags, toLowerCase(childNode.nodeName))
       /\ ~RegExpTest(opts.ignoreClassPattern, childNode.className)

shouldRender(childNode, opts) ==
    \/ RegExpTest(opts.processClassPattern, childNode.className)
    \/ ~(\/ includes(opts.skipTags, toLowerCase(childNode.nodeName))
         \/ RegExpTest(opts.ignoreClassPattern, childNode.className))

\* The loop index after a text child was replaced by a fragment of
\* fragLength nodes without the adjustment of line 168.
indexAfterText_NoAdjust(i, fragLength) == i + 1

\* The loop index of scanElement after a text child was replaced by a fragment
\* of fragLength nodes: i += fragLength - 1 (line 168), then i++ (line 163).
indexAfterText(i, fragLength) == (i + (fragLength - 1)) + 1

\* elem.replaceChild(frag, childNode): the child list with the child at
\* 0-based `index` replaced by the nodes `ids` of the fragment.
replaceChild(childNodes, index, ids) ==
    SubSeq(childNodes, 1, index) \o ids \o SubSeq(childNodes, index + 2, Len(childNodes))

\* ----------------------------------------------------------- defaultOptions

defaultOptions ==
    [skipTags |-> <<"script", "noscript", "style", "textarea", "pre", "code",
                    "annotation", "annotation-xml">>,
     ignoreClass |-> "tex2jax_ignore",
     processClass |-> "tex2jax_process",
     TeX |-> [disabled |-> FALSE,
              processEnvironments |-> TRUE,
              delimiters |-> defaultDelimiters]]

\* Object.assign({}, defaults, overrides): own keys of the overrides replace
\* those of the defaults, whole values at a time.
ObjectAssign(defaults, overrides) ==
    [k \in DOMAIN defaults \cup DOMAIN overrides |->
        IF k \in DOMAIN overrides THEN overrides[k] ELSE defaults[k]]

\* The options after line 216.
mergedOptions(overrides) == ObjectAssign(defaultOptions, overrides)

\* The options after lines 217-218.
compiledOptions(overrides) ==
    LET merged == mergedOptions(overrides)
    IN  ("ignoreClassPattern" :> merged.ignoreClass)
        @@ ("processClassPattern" :> merged.processClass)
        @@ merged

\* The elem argument: absent, a node, or the id of an element.
AbsentRoot == [kind |-> "absent", node |-> 0, id |-> ""]

NodeRoot(n) == [kind |-> "node", node |-> n, id |-> ""]

IdRoot(id) == [kind |-> "id", node |-> 0, id |-> id]

NoScan == [text |-> "", frag |-> <<>>]

TreeIdle ==
    /\ doc = <<>>
    /\ orig = <<>>
    /\ rootArg = AbsentRoot
    /\ optionsArg = <<>>
    /\ failing = {}
    /\ options = <<>>
    /\ status = "idle"
    /\ stack = <<>>
    /\ visited = <<>>
    /\ entered = <<>>
    /\ replacedBy = <<>>
    /\ lastScan = NoScan

\* ===================================================== findEndOfMath calls

MatchAlphabet == {"\\", "{", "}", "$", "a"}

MatchDelimiters == {"$", "$$", "\\}", "a}"}

MatchIdle == [delimiter |-> "", text |-> "", startIndex |-> 0]

SplitIdle ==
    /\ sText = ""
    /\ sDelims = defaultDelimiters
    /\ sData = <<>>
    /\ sPc = "idle"
    /\ sI = 0

InitMatch ==
    /\ \E text \in Strings(MatchAlphabet, MaxMatchLen) :
       \E delimiter \in MatchDelimiters :
       \E startIndex \in 0..Len(text) :
          fArgs = [delimiter |-> delimiter, text |-> text, startIndex |-> startIndex]
    /\ fRet = <<>>
    /\ SplitIdle
    /\ TreeIdle

CallFindEndOfMath ==
    /\ fRet = <<>>
    /\ fRet' = <<findEndOfMath(fArgs.delimiter, fArgs.text, fArgs.startIndex)>>
    /\ UNCHANGED <<fArgs, splitVars, treeVars>>

NextMatch == CallFindEndOfMath

SpecMatch == InitMatch /\ [][NextMatch]_vars

\* ================================================ splitWithDelimiters calls

SplitAlphabet == {"\\", "(", ")", "$", "a"}

\* Texts of the documented examples, beside the generated ones.
ExampleTexts ==
    {"a \\( x \\) b", "a $$ x $$ $$ y $$ b", "a \\( x b",
     "\\(a{\\)}\\)b", "$$\\[a\\]$$", "\\[a$$b\\]$$", "\\(\\\\)\\)"}

SplitTexts == Strings(SplitAlphabet, MaxSplitLen) \cup ExampleTexts

SplitConfigs ==
    {defaultDelimiters,
     [inline |-> << <<"$", "$">>, <<"\\(", "\\)">> >>, display |-> << <<"$$", "$$">> >>],
     [inline |-> << <<"(", ")">> >>, display |-> << <<"a", "$">> >>]}

InitSplit ==
    /\ sText \in SplitTexts
    /\ sDelims \in SplitConfigs
    /\ sData = <<TextSegment(sText)>>
    /\ sPc = "inline"
    /\ sI = 0
    /\ fArgs = MatchIdle
    /\ fRet = <<>>
    /\ TreeIdle

\* One iteration of the loop over delimiters.inline (lines 108-112).
InlinePass ==
    /\ sPc = "inline"
    /\ sI < Len(sDelims.inline)
    /\ sData' = splitAtDelimiters(sData, sDelims.inline[sI + 1][1],
                                  sDelims.inline[sI + 1][2], "textstyle")
    /\ sI' = sI + 1
    /\ UNCHANGED <<sText, sDelims, sPc, fArgs, fRet, treeVars>>

\* The inline loop ends and the display loop begins.
InlineDone ==
    /\ sPc = "inline"
    /\ ~(sI < Len(sDelims.inline))
    /\ sPc' = "display"
    /\ sI' = 0
    /\ UNCHANGED <<sText, sDelims, sData, fArgs, fRet, treeVars>>

\* One iteration of the loop over delimiters.display (lines 113-117).
DisplayPass ==
    /\ sPc = "display"
    /\ sI < Len(sDelims.display)
    /\ sData' = splitAtDelimiters(sData, sDelims.display[sI + 1][1],
                                  sDelims.display[sI + 1][2], "displaystyle")
    /\ sI' = sI + 1
    /\ UNCHANGED <<sText, sDelims, sPc, fArgs, fRet, treeVars>>

\* return data (line 119).
SplitReturn ==
    /\ sPc = "display"
    /\ ~(sI < Len(sDelims.display))
    /\ sPc' = "returned"
    /\ UNCHANGED <<sText, sDelims, sData, sI, fArgs, fRet, treeVars>>

NextSplit == InlinePass \/ InlineDone \/ DisplayPass \/ SplitReturn

SpecSplit == InitSplit /\ [][NextSplit]_vars

\* ===================================================== renderMathInElement

\* !elem (line 211)
isFalsy(arg) == arg.kind = "absent" \/ (arg.kind = "id" /\ arg.id = "")

\* elem after lines 213-214.
resolveRoot(arg, document) ==
    LET found == IF arg.kind = "id" THEN getElementById(document, arg.id) ELSE arg.node
    IN  IF found = 0 THEN documentBody ELSE found

\* The documents of the model:
\*   <body> t1 <tag1 id="math" class=class1> $$y$$ <span class=class2> t3 </span> </tag1>
\*          <!-- \(x\) --> b \(x\) </body>
Document(tag1, class1, class2, t1, t3) ==
    << ElementNode("BODY", "", "", <<2, 3, 6, 7>>),
       createTextNode(t1),
       ElementNode(tag1, class1, "math", <<4, 5>>),
       createTextNode("$$y$$"),
       ElementNode("SPAN", class2, "", <<8>>),
       CommentNode("\\(x\\)"),
       createTextNode("b \\(x\\)"),
       createTextNode(t3) >>

TagNames == {"DIV", "PRE"}

ClassNames == {"", "tex2jax_ignore", "note tex2jax_process"}

BodyTexts == {"a", "\\(x\\) and $$y$$", "\\begin{x}", "\r \\begin{y}"}

InnerTexts == {"\\(x\\)", "\\[y\\]", "a{"}

RootArgs == {AbsentRoot, NodeRoot(1), NodeRoot(3), IdRoot("math"), IdRoot("nope")}

\* The options argument: undefined (no own keys), or an object of overrides.
OptionsArgs ==
    { <<>>,
      [skipTags |-> <<"span">>],
      [TeX |-> [processEnvironments |-> FALSE]],
      [ignoreClass |-> "(tex2jax_ignore"],
      [processClass |-> "("],
      [TeX |-> [processEnvironments |-> TRUE,
                delimiters |-> [inline |-> << <<"", "">> >>, display |-> <<>>]]],
      [TeX |-> [processEnvironments |-> TRUE,
                delimiters |-> [inline |-> << <<"$$", "">> >>, display |-> <<>>]]] }

\* The sources latexToMarkup throws for.
FailingSets ==
    { {}, {"y"}, {"x", "\\begin{x}"}, {"x", "y", "\\begin{x}", "\r \\begin{y}"} }

InitTree ==
    /\ \E tag1 \in TagNames, class1 \in ClassNames, class2 \in ClassNames,
          t1 \in BodyTexts, t3 \in InnerTexts :
          doc = Document(tag1, class1, class2, t1, t3)
    /\ orig = doc
    /\ rootArg \in RootArgs
    /\ optionsArg \in OptionsArgs
    /\ failing \in FailingSets
    /\ options = optionsArg
    /\ status = "called"
    /\ stack = <<>>
    /\ visited = <<>>
    /\ entered = <<>>
    /\ replacedBy = <<>>
    /\ lastScan = NoScan
    /\ fArgs = MatchIdle
    /\ fRet = <<>>
    /\ SplitIdle

\* if (!elem) return; (line 211)
EarlyReturn ==
    /\ status = "called"
    /\ isFalsy(rootArg)
    /\ status' = "returned"
    /\ UNCHANGED <<doc, orig, rootArg, optionsArg, failing, options, stack,
                   visited, entered, replacedBy, lastScan, matchVars, splitVars>>

\* new RegExp(...) throws a SyntaxError (lines 217-218): at line 217 for
\* ignoreClass, or at line 218 for processClass, after line 217 has stored
\* ignoreClassPattern in the local options.
RegExpThrows ==
    /\ status = "called"
    /\ ~isFalsy(rootArg)
    /\ \/ ~RegExpCompiles(mergedOptions(optionsArg).ignoreClass)
       \/ ~RegExpCompiles(mergedOptions(optionsArg).processClass)
    /\ options' = IF RegExpCompiles(mergedOptions(optionsArg).ignoreClass)
                   THEN ("ignoreClassPattern" :> mergedOptions(optionsArg).ignoreClass)
                        @@ mergedOptions(optionsArg)
                   ELSE mergedOptions(optionsArg)
    /\ status' = "threw"
    /\ UNCHANGED <<doc, orig, rootArg, optionsArg, failing, stack,
                   visited, entered, replacedBy, lastScan, matchVars, splitVars>>

\* Lines 213-220 up to the call of scanElement on the resolved root.
StartScan ==
    /\ status = "called"
    /\ ~isFalsy(rootArg)
    /\ RegExpCompiles(mergedOptions(optionsArg).ignoreClass)
    /\ RegExpCompiles(mergedOptions(optionsArg).processClass)
    /\ options' = compiledOptions(optionsArg)
    /\ stack' = <<[elem |-> resolveRoot(rootArg, doc), i |-> 0]>>
    /\ entered' = <<resolveRoot(rootArg, doc)>>
    /\ status' = "scanning"
    /\ UNCHANGED <<doc, orig, rootArg, optionsArg, failing,
                   visited, replacedBy, lastScan, matchVars, splitVars>>

\* The running call of scanElement and the child its loop is at.
top == stack[Len(stack)]

atChild == status = "scanning" /\ top.i < Len(doc[top.elem].childNodes)

childId == doc[top.elem].childNodes[top.i + 1]

childNode == doc[childId]

\* The stack with the loop index of the running call set to i.
withIndex(i) == [stack EXCEPT ![Len(stack)].i = i]

\* The loop condition fails (line 163): scanElement returns, to the loop of
\* its caller or to renderMathInElement.
LoopExit ==
    /\ status = "scanning"
    /\ ~(top.i < Len(doc[top.elem].childNodes))
    /\ IF Len(stack) = 1
       THEN stack' = <<>> /\ status' = "returned"
       ELSE /\ stack' = [SubSeq(stack, 1, Len(stack) - 1)
                            EXCEPT ![Len(stack) - 1].i = stack[Len(stack) - 1].i + 1]
            /\ status' = status
    /\ UNCHANGED <<doc, orig, rootArg, optionsArg, failing, options,
                   visited, entered, replacedBy, lastScan, matchVars, splitVars>>

\* A text child is replaced by the fragment scanText returns (lines 165-169).
ScanTextChild ==
    /\ atChild
    /\ childNode.nodeType = 3
    /\ ~scanTextThrows(childNode.data, options)
    /\ ~scanTextHangs(childNode.data, options)
    /\ LET frag == scanText(childNode.data, options, failing)
           ids  == [k \in 1..Len(frag) |-> Len(doc) + k]
       IN  /\ doc' = [doc EXCEPT ![top.elem].childNodes =
                                    replaceChild(@, top.i, ids)] \o frag
           /\ stack' = withIndex(indexAfterText(top.i, Len(frag)))
           /\ replacedBy' = (childId :> ids) @@ replacedBy
           /\ lastScan' = [text |-> childNode.data, frag |-> frag]
    /\ visited' = Append(visited, <<top.elem, childId>>)
    /\ UNCHANGED <<orig, rootArg, optionsArg, failing, options, status,
                   entered, matchVars, splitVars>>

\* scanText throws on a text child; nothing catches it before the caller of
\* renderMathInElement.
ScanTextThrows ==
    /\ atChild
    /\ childNode.nodeType = 3
    /\ scanTextThrows(childNode.data, options)
    /\ status' = "threw"
    /\ visited' = Append(visited, <<top.elem, childId>>)
    /\ UNCHANGED <<doc, orig, rootArg, optionsArg, failing, options, stack,
                   entered, replacedBy, lastScan, matchVars, splitVars>>

\* scanText never returns on a text child.
ScanTextHangs ==
    /\ atChild
    /\ childNode.nodeType = 3
    /\ scanTextHangs(childNode.data, options)
    /\ status' = "hung"
    /\ visited' = Append(visited, <<top.elem, childId>>)
    /\ UNCHANGED <<doc, orig, rootArg, optionsArg, failing, options, stack,
                   entered, replacedBy, lastScan, matchVars, splitVars>>

\* An element child that shouldRender accepts: the recursive call (line 181).
EnterChild ==
    /\ atChild
    /\ childNode.nodeType = 1
    /\ shouldRender(childNode, options)
    /\ stack' = Append(stack, [elem |-> childId, i |-> 0])
    /\ entered' = Append(entered, childId)
    /\ visited' = Append(visited, <<top.elem, childId>>)
    /\ UNCHANGED <<doc, orig, rootArg, optionsArg, failing, options, status,
                   replacedBy, lastScan, matchVars, splitVars>>

\* An element child that shouldRender rejects.
SkipChild ==
    /\ atChild
    /\ childNode.nodeType = 1
    /\ ~shouldRender(childNode, options)
    /\ stack' = withIndex(top.i + 1)
    /\ visited' = Append(visited, <<top.elem, childId>>)
    /\ UNCHANGED <<doc, orig, rootArg, optionsArg, failing, options, status,
                   entered, replacedBy, lastScan, matchVars, splitVars>>

\* Any other kind of node is ignored (line 184).
OtherChild ==
    /\ atChild
    /\ childNode.nodeType \notin {1, 3}
    /\ stack' = withIndex(top.i + 1)
    /\ visited' = Append(visited, <<top.elem, childId>>)
    /\ UNCHANGED <<doc, orig, rootArg, optionsArg, failing, options, status,
                   entered, replacedBy, lastScan, matchVars, splitVars>>

NextTree ==
    \/ EarlyReturn
    \/ RegExpThrows
    \/ StartScan
    \/ LoopExit
    \/ ScanTextChild
    \/ ScanTextThrows
    \/ ScanTextHangs
    \/ EnterChild
    \/ SkipChild
    \/ OtherChild

Spec == InitTree /\ [][NextTree]_vars

\* ================================================================= claims

\* ---- findEndOfMath (SpecMatch)

\* Offset i is the character consumed by a backslash escape when the text is
\* read from `start`: the character before it is a backslash that is not
\* itself consumed.
RECURSIVE Escaped(_, _, _)
Escaped(text, start, i) ==
    /\ i > start
    /\ CharAt(text, i - 1) = "\\"
    /\ ~Escaped(text, start, i - 1)

\* Unescaped "{" minus unescaped "}" among the offsets start..i-1.
BraceDepth(text, start, i) ==
    Cardinality({j \in start..(i - 1) : ~Escaped(text, start, j) /\ CharAt(text, j) = "{"})
    - Cardinality({j \in start..(i - 1) : ~Escaped(text, start, j) /\ CharAt(text, j) = "}"})

\* The offsets at which `token` closes the math that begins at `start`.
MatchOffsets(text, token, start) ==
    {i \in start..(Len(text) - 1) :
        /\ OccursAt(text, token, i)
        /\ ~Escaped(text, start, i)
        /\ BraceDepth(text, start, i) <= 0}

\* C9: findEndOfMath returns the smallest offset i >= start at which the token
\* occurs, i is not consumed by a preceding backslash escape and the brace
\* depth scanned from start up to i is <= 0; and -1 when there is none.
C9_FindEndOfMath ==
    fRet # <<>> =>
        fRet[1] = SmallestOr(MatchOffsets(fArgs.text, fArgs.delimiter, fArgs.startIndex), -1)

\* C9 witness: a token found after an earlier occurrence of it was passed over
\* (inside an open brace group or consumed by an escape).
C9_Witness ==
    /\ fRet # <<>>
    /\ fRet[1] >= 0
    /\ IndexOf(fArgs.text, fArgs.delimiter, fArgs.startIndex) < fRet[1]

\* ---- splitWithDelimiters (SpecSplit)

SegmentRaw(segment) == IF segment.type = "text" THEN segment.data ELSE segment.rawData

RECURSIVE RawConcat(_)
RawConcat(data) ==
    IF data = <<>> THEN "" ELSE SegmentRaw(Head(data)) \o RawConcat(Tail(data))

\* C1: the raw forms of the segments splitWithDelimiters returns, concatenated
\* in order, are the input text.
C1_RoundTrip == sPc = "returned" => RawConcat(sData) = sText

\* C1 witness: a returned segmentation with a math segment and a last text
\* segment that still holds an unmatched left delimiter.
C1_Witness ==
    /\ sPc = "returned"
    /\ \E k \in 1..Len(sData) : sData[k].type = "math"
    /\ sData[Len(sData)].type = "text"
    /\ IndexOf(sData[Len(sData)].data, sDelims.inline[1][1], 0) # -1

\* The state right after the first pass, over the pair inline[0], when the
\* text holds its left token and nothing closes it.
UnmatchedLeft ==
    /\ sPc = "inline"
    /\ sI = 1
    /\ IndexOf(sText, sDelims.inline[1][1], 0) # -1
    /\ MatchOffsets(sText, sDelims.inline[1][2],
                    IndexOf(sText, sDelims.inline[1][1], 0) + Len(sDelims.inline[1][1])) = {}

\* C8 as amended: with an unmatched left delimiter the pass emits the prefix
\* as a text segment followed by one text segment that begins AT the left
\* delimiter (delimiter included); no math segment.
C8_UnmatchedLeftKept ==
    UnmatchedLeft =>
        LET p == IndexOf(sText, sDelims.inline[1][1], 0)
        IN  sData = <<TextSegment(Slice(sText, 0, p)),
                      TextSegment(Slice(sText, p, Len(sText)))>>

\* C8 as stated: the trailing text segment holds the text AFTER the left
\* delimiter.
C8_UnmatchedLeftDropped ==
    UnmatchedLeft =>
        LET p == IndexOf(sText, sDelims.inline[1][1], 0)
        IN  sData = <<TextSegment(Slice(sText, 0, p)),
                      TextSegment(Slice(sText, p + Len(sDelims.inline[1][1]), Len(sText)))>>

\* C8 witness: the documented example after the pass over the pair \( \).
C8_Witness ==
    /\ UnmatchedLeft
    /\ sText = "a \\( x b"
    /\ sData = <<TextSegment("a "), TextSegment("\\( x b")>>

\* ---- renderMathInElement, scanElement, scanText (Spec)

InSeq(seq, x) == \E k \in 1..Len(seq) : seq[k] = x

IsPrefix(a, b) == Len(a) <= Len(b) /\ a = SubSeq(b, 1, Len(a))

\* The children the loop of scanElement(e) examined so far, in order.
RECURSIVE ExaminedBy(_, _)
ExaminedBy(e, log) ==
    IF log = <<>> THEN <<>>
    ELSE (IF Head(log)[1] = e THEN <<Head(log)[2]>> ELSE <<>>)
         \o ExaminedBy(e, Tail(log))

\* The loop of scanElement(e) has run to its end.
LoopDone(e) == InSeq(entered, e) /\ ~(\E k \in 1..Len(stack) : stack[k].elem = e)

\* The child list `children` with every replaced text node exchanged for the
\* nodes that replaced it.
RECURSIVE Spliced(_)
Spliced(children) ==
    IF children = <<>> THEN <<>>
    ELSE (IF Head(children) \in DOMAIN replacedBy
          THEN replacedBy[Head(children)] ELSE <<Head(children)>>)
         \o Spliced(Tail(children))

\* The condition of the skip/process policy for an element, as the spec
\* states it.
PolicyAccepts(node) ==
    \/ RegExpTest(options.processClassPattern, node.className)
    \/ /\ ~includes(options.skipTags, toLowerCase(node.nodeName))
       /\ ~RegExpTest(options.ignoreClassPattern, node.className)

ContainsDelimiter(text) ==
    \/ IndexOf(text, "\\(", 0) # -1
    \/ IndexOf(text, "$$", 0) # -1
    \/ IndexOf(text, "\\[", 0) # -1

\* C3: an element child examined by a loop of scanElement is recursed into if
\* and only if processClass matches its class or neither its lower-cased tag
\* is in skipTags nor ignoreClass matches its class; a rejected child and its
\* whole subtree are as they were before the traversal.
C3_SkipProcessPolicy ==
    \A k \in 1..Len(visited) :
        LET c == visited[k][2]
        IN  doc[c].nodeType = 1 =>
                /\ InSeq(entered, c) <=> PolicyAccepts(doc[c])
                /\ ~PolicyAccepts(doc[c]) =>
                       \A d \in Subtree(orig, c) : doc[d] = orig[d]

\* C3 witness: a finished traversal that entered an element whose tag is in
\* skipTags (its class matches processClass) and rejected an element below
\* which a text holds a delimiter.
C3_Witness ==
    /\ status = "returned"
    /\ \E k \in 1..Len(visited) :
          LET c == visited[k][2]
          IN  /\ doc[c].nodeType = 1
              /\ includes(options.skipTags, toLowerCase(doc[c].nodeName))
              /\ InSeq(entered, c)
    /\ \E k \in 1..Len(visited) :
          LET c == visited[k][2]
          IN  /\ doc[c].nodeType = 1
              /\ ~InSeq(entered, c)
              /\ \E d \in Subtree(orig, c) :
                    orig[d].nodeType = 3 /\ ContainsDelimiter(orig[d].data)

\* C10: the loop of scanElement examines the children its element had when
\* the loop started, each once and in their order, and all of them when it
\* runs to its end; it never examines a node a replacement inserted; every
\* replacement has at least one node and sits where the text node was, the
\* other children keeping their order; and a loop index never passes the end
\* of its child list, so that every step examines a child not yet examined or
\* ends a loop, and the traversal ends.
C10_VisitOnce ==
    /\ \A k \in 1..Len(visited) :
          visited[k][1] <= Len(orig) /\ visited[k][2] <= Len(orig)
    /\ \A k \in 1..Len(entered) : entered[k] <= Len(orig)
    /\ \A c \in DOMAIN replacedBy : Len(replacedBy[c]) >= 1
    /\ \A k \in 1..Len(entered) :
          LET e == entered[k]
          IN  /\ IsPrefix(ExaminedBy(e, visited), orig[e].childNodes)
              /\ LoopDone(e) => ExaminedBy(e, visited) = orig[e].childNodes
              /\ doc[e].childNodes = Spliced(orig[e].childNodes)
    /\ \A k \in 1..Len(stack) :
          stack[k].i <= Len(doc[stack[k].elem].childNodes)
    /\ status = "scanning" => stack # <<>>

\* C10 witness: a finished traversal in which the first child of the body was
\* replaced by three nodes or more and the last child was examined after it.
C10_Witness ==
    /\ status = "returned"
    /\ 2 \in DOMAIN replacedBy
    /\ Len(replacedBy[2]) >= 3
    /\ InSeq(visited, <<documentBody, 7>>)
    /\ 7 \in DOMAIN replacedBy

\* The part of C2 about delimited segments: a math segment whose source
\* latexToMarkup throws for becomes a text node holding its rawData, at the
\* position of the segment.
C2_DelimitedDowngrade ==
    (lastScan.frag # <<>> /\ ~environmentCase(lastScan.text, options)) =>
        LET data == splitWithDelimiters(lastScan.text, options.TeX.delimiters)
        IN  /\ Len(lastScan.frag) = Len(data)
            /\ \A k \in 1..Len(data) :
                  (data[k].type = "math" /\ data[k].data \in failing) =>
                      lastScan.frag[k] = createTextNode(data[k].rawData)

\* C2: when latexToMarkup throws for a math source, the fragment scanText
\* returns holds at that position a text node with the original text (the
\* rawData of a delimited segment, the whole text in the \begin case) and no
\* span for that source.
C2_FailureDowngrade ==
    /\ C2_DelimitedDowngrade
    /\ (/\ lastScan.frag # <<>>
        /\ environmentCase(lastScan.text, options)
        /\ lastScan.text \in failing) =>
           lastScan.frag = <<createTextNode(lastScan.text)>>

\* C4: with no root the traversal runs on document.body; with an id that
\* resolves it runs on that element; with an id that does not resolve nothing
\* is visited or modified.
C4_RootResolution ==
    status = "returned" =>
        /\ rootArg.kind = "absent" =>
               entered # <<>> /\ entered[1] = documentBody
        /\ (rootArg.kind = "id" /\ getElementById(orig, rootArg.id) # 0) =>
               entered # <<>> /\ entered[1] = getElementById(orig, rootArg.id)
        /\ (rootArg.kind = "id" /\ getElementById(orig, rootArg.id) = 0) =>
               entered = <<>> /\ doc = orig

\* C5: after a traversal, every element below the root whose class matches
\* processClass was entered, whatever its ancestors are.
C5_ProcessClassOverride ==
    (status = "returned" /\ entered # <<>>) =>
        \A n \in Subtree(orig, entered[1]) :
            (/\ orig[n].nodeType = 1
             /\ RegExpTest(options.processClassPattern, orig[n].className)) =>
                InSeq(entered, n)

HasEmptyToken(pairs) == \E k \in 1..Len(pairs) : pairs[k][1] = "" \/ pairs[k][2] = ""

\* The configuration the overrides give is malformed: a pattern that is no
\* regular expression, or a delimiter pair with an empty token.
MalformedConfiguration(overrides) ==
    LET merged == mergedOptions(overrides)
    IN  \/ ~RegExpCompiles(merged.ignoreClass)
        \/ ~RegExpCompiles(merged.processClass)
        \/ /\ "delimiters" \in DOMAIN merged.TeX
           /\ \/ HasEmptyToken(merged.TeX.delimiters.inline)
              \/ HasEmptyToken(merged.TeX.delimiters.display)

\* C6: called on a root with a malformed configuration, renderMathInElement
\* throws before any node is visited or modified; and a traversal that has
\* begun neither throws nor runs forever.
C6_ConfigurationErrorsFirst ==
    /\ (MalformedConfiguration(optionsArg) /\ ~isFalsy(rootArg) /\ status # "called") =>
           (status = "threw" /\ entered = <<>> /\ doc = orig)
    /\ entered # <<>> => status \in {"scanning", "returned"}

\* C7: during a traversal every field the caller did not set, at the top
\* level or inside TeX, has its default value.
C7_MergeKeepsDefaults ==
    entered # <<>> =>
        /\ \A k \in DOMAIN defaultOptions :
              k \notin DOMAIN optionsArg => options[k] = defaultOptions[k]
        /\ \A k \in DOMAIN defaultOptions.TeX :
              ~("TeX" \in DOMAIN optionsArg /\ k \in DOMAIN optionsArg.TeX) =>
                  (k \in DOMAIN options.TeX /\ options.TeX[k] = defaultOptions.TeX[k])

====
